---- MODULE Spec2Model ----
(***************************************************************************)
(* The concept tree explorer of the Pure IDE                               *)
(* (components/editor/side-bar/ConceptTreeExplorer.tsx): the handlers of   *)
(* a tree node container (select, toggle expansion, double click), the     *)
(* callbacks FileExplorerTree hands to the tree view (open, expand,        *)
(* compress, getChildNodes), the panel's refresh and collapse-all buttons  *)
(* and the context menu of a node.  The tree state store the component     *)
(* calls (expandNode, openNode, setSelectedNode, refreshTree,              *)
(* refreshTreeData) lives in stores/ and is modelled from its description. *)
(***************************************************************************)
EXTENDS Integers, Sequences, FiniteSets, Bags, TLC

VARIABLES
    nodes,          \* treeData.nodes: id -> node record (childrenIds absent until loaded)
    selectedNode,   \* treeState.selectedNode: an id or Undefined
    inflight,       \* bag of store flows awaiting their result
    alerts,         \* calls of applicationStore.alertIllegalUnhandledError made by the latest step
    bubble,         \* node whose click is still propagating to the container, or Undefined
    last,           \* the latest step: event, node, callbacks dispatched, the node's flags before
    viewNode,       \* rendering alone: the node handed to the view
    viewIds,        \* rendering alone: the ids treeData.nodes resolves
    rendered        \* rendering alone: what the view produced last

vars == <<nodes, selectedNode, inflight, alerts, bubble, last, viewNode, viewIds, rendered>>

Undefined == "undefined"

\* ---------------------------------------------------------------- bounds
MaxOpenTasks == 1
MaxRefreshTasks == 1
MaxChildren == 2

\* ------------------------------------------------------- concept types
PACKAGE == "Package"
CLASS == "Class"
ASSOCIATION == "Association"
PROPERTY == "Property"
FUNCTION == "Function"
ENUMERATION == "Enumeration"

ConceptTypes == {PACKAGE, CLASS, ASSOCIATION, PROPERTY, FUNCTION, ENUMERATION}

\* ------------------------------------------- the concepts the server holds
RootIds == {"root"}

ServerChildren(id) ==
    CASE id = "root" -> <<"cls", "assoc">>
      [] id = "cls" -> <<"prop">>
      [] OTHER -> <<>>

ServerType(id) ==
    CASE id = "root" -> PACKAGE
      [] id = "cls" -> CLASS
      [] id = "assoc" -> ASSOCIATION
      [] OTHER -> PROPERTY

Ids == {"root", "cls", "assoc", "prop"}

NewNode(id) ==
    [id |-> id, pureType |-> ServerType(id), isOpen |-> FALSE, isLoading |-> FALSE]

\* --------------------------------------------------------- node records
HasChildrenIds(node) == "childrenIds" \in DOMAIN node

Range(s) == {s[i] : i \in DOMAIN s}

\* ------------------------------------------- ConceptTreeNodeContainer
isExpandable_noAssociation(node) == node.pureType \in {PACKAGE, CLASS}

isExpandable(node) == node.pureType \in {PACKAGE, CLASS, ASSOCIATION}

toggleExpansion_noGuard(node) ==
    IF node.isOpen THEN <<"onNodeCompress">> ELSE <<"onNodeExpand">>

\* the callbacks toggleExpansion dispatches for the node
toggleExpansion(node) ==
    IF node.isLoading THEN <<>>
    ELSE IF node.isOpen THEN <<"onNodeCompress">>
    ELSE <<"onNodeExpand">>

onDoubleClick_noGuard(node) ==
    IF isExpandable(node) THEN toggleExpansion(node) ELSE <<"onNodeOpen">>

\* the callbacks onDoubleClick dispatches for the node
onDoubleClick(node) ==
    IF node.isLoading THEN <<>>
    ELSE IF isExpandable(node) THEN toggleExpansion(node)
    ELSE <<"onNodeOpen">>

\* ---------------------------------------------------- FileExplorerTree
onNodeOpen(node) == [kind |-> "openNode", node |-> node.id, catch |-> TRUE]

onNodeExpand_noCatch(node) == [kind |-> "expandNode", node |-> node.id, catch |-> FALSE]

onNodeExpand_opens(node) == [kind |-> "openNode", node |-> node.id, catch |-> TRUE]

onNodeExpand(node) == [kind |-> "expandNode", node |-> node.id, catch |-> TRUE]

\* treeState.refreshTree(): republishes the tree data; no field of a node changes
refreshTree(ns) == ns

onNodeCompress_dropsChildren(ns, node) ==
    refreshTree([ns EXCEPT ![node.id] =
        [id |-> node.id, pureType |-> node.pureType, isOpen |-> FALSE,
         isLoading |-> node.isLoading]])

onNodeCompress(ns, node) == refreshTree([ns EXCEPT ![node.id].isOpen = FALSE])

RECURSIVE MapResolve(_, _)
\* childrenIds.map((childId) => treeData.nodes.get(childId))
MapResolve(ids, ns) ==
    IF ids = <<>> THEN <<>>
    ELSE <<IF Head(ids) \in DOMAIN ns THEN ns[Head(ids)] ELSE [id |-> Undefined]>>
         \o MapResolve(Tail(ids), ns)

isNonNullable(x) == x.id # Undefined

getChildNodes_noFilter(node, ns) ==
    IF node.isLoading \/ ~HasChildrenIds(node) THEN <<>>
    ELSE MapResolve(node.childrenIds, ns)

getChildNodes(node, ns) ==
    IF node.isLoading \/ ~HasChildrenIds(node) THEN <<>>
    ELSE SelectSeq(MapResolve(node.childrenIds, ns), isNonNullable)

\* ------------------------------------------------- ConceptTreeExplorer
collapseTree_keepsSelection(ns, sel) ==
    [nodes |-> refreshTree([id \in DOMAIN ns |-> [ns[id] EXCEPT !.isOpen = FALSE]]),
     selectedNode |-> sel]

collapseTree(ns, sel) ==
    [nodes |-> refreshTree([id \in DOMAIN ns |-> [ns[id] EXCEPT !.isOpen = FALSE]]),
     selectedNode |-> Undefined]

\* onClick of the refresh button
refreshTreeButton == [kind |-> "refreshTreeData", node |-> Undefined, catch |-> TRUE]

\* -------------------------------------------- ConceptExplorerContextMenu
ConceptExplorerContextMenu_viewSourceAlways(nodeType) ==
    (IF nodeType = PACKAGE
        THEN <<[label |-> "Rename", action |-> "renamePackage"]>> ELSE <<>>)
    \o (IF nodeType = PROPERTY
        THEN <<[label |-> "Rename", action |-> "renameProperty"]>> ELSE <<>>)
    \o (IF nodeType # PACKAGE /\ nodeType # PROPERTY
        THEN <<[label |-> "Rename", action |-> "rename"]>> ELSE <<>>)
    \o (IF nodeType = PACKAGE
        THEN <<[label |-> "Run tests", action |-> "runTests"]>> ELSE <<>>)
    \o (IF nodeType # PACKAGE /\ nodeType # PROPERTY
        THEN <<[label |-> "Move", action |-> "move"]>> ELSE <<>>)
    \o (IF nodeType = FUNCTION
        THEN <<[label |-> "Service (JSON)", action |-> "serviceJSON"]>> ELSE <<>>)
    \o <<[label |-> "View Source", action |-> "viewSource"]>>

\* the items of the menu in order: the text shown and the handler onClick calls
ConceptExplorerContextMenu(nodeType) ==
    (IF nodeType = PACKAGE
        THEN <<[label |-> "Rename", action |-> "renamePackage"]>> ELSE <<>>)
    \o (IF nodeType = PROPERTY
        THEN <<[label |-> "Rename", action |-> "renameProperty"]>> ELSE <<>>)
    \o (IF nodeType # PACKAGE /\ nodeType # PROPERTY
        THEN <<[label |-> "Rename", action |-> "rename"]>> ELSE <<>>)
    \o (IF nodeType = PACKAGE
        THEN <<[label |-> "Run tests", action |-> "runTests"]>> ELSE <<>>)
    \o (IF nodeType # PACKAGE /\ nodeType # PROPERTY
        THEN <<[label |-> "Move", action |-> "move"]>> ELSE <<>>)
    \o (IF nodeType = FUNCTION
        THEN <<[label |-> "Service (JSON)", action |-> "serviceJSON"]>> ELSE <<>>)
    \o (IF nodeType # PACKAGE
        THEN <<[label |-> "View Source", action |-> "viewSource"]>> ELSE <<>>)

\* ------------------------------------------ the tree state store (stores/)
\* expandNode up to its fetch: an unloaded node enters Loading, a loaded one is shown
expandNode(ns, id) ==
    IF HasChildrenIds(ns[id])
        THEN refreshTree([ns EXCEPT ![id].isOpen = TRUE])
        ELSE [ns EXCEPT ![id].isLoading = TRUE]

\* expandNode after its fetch returned `fetched`
expandNodeSucceeded(ns, id, fetched) ==
    LET added == [c \in DOMAIN ns \cup Range(fetched) |->
                     IF c \in DOMAIN ns THEN ns[c] ELSE NewNode(c)]
    IN  refreshTree([added EXCEPT ![id] =
            [id |-> id, pureType |-> ns[id].pureType, isOpen |-> TRUE,
             isLoading |-> FALSE, childrenIds |-> fetched]])

\* expandNode after its fetch failed
expandNodeFailed(ns, id) ==
    [ns EXCEPT ![id] =
        [id |-> id, pureType |-> ns[id].pureType, isOpen |-> FALSE, isLoading |-> FALSE]]

setSelectedNode(sel) == sel

\* flowResult(...).catch(applicationStore.alertIllegalUnhandledError)
Rejected(task, n) == IF task.catch THEN n + 1 ELSE n

TaskCount(kind, id) ==
    CopiesIn([kind |-> kind, node |-> id, catch |-> TRUE], inflight)
    + CopiesIn([kind |-> kind, node |-> id, catch |-> FALSE], inflight)

RECURSIVE SumCount(_, _)
SumCount(kind, S) ==
    IF S = {} THEN 0
    ELSE LET x == CHOOSE y \in S : TRUE
         IN  TaskCount(kind, x) + SumCount(kind, S \ {x})

Start(task) == inflight (+) SetToBag({task})

Settle(task) == inflight (-) SetToBag({task})

\* ----------------------------------------------------- what the tree shows
RECURSIVE Shown(_, _)
\* the tree view renders the roots and, under every open node, getChildNodes of it
Shown(ns, S) ==
    LET more == S \cup {c \in DOMAIN ns :
                    \E p \in S : ns[p].isOpen
                        /\ \E i \in DOMAIN getChildNodes(ns[p], ns) :
                               getChildNodes(ns[p], ns)[i].id = c}
    IN  IF more = S THEN S ELSE Shown(ns, more)

Visible(id) == id \in Shown(nodes, RootIds)

\* ------------------------------------------- the effect of the dispatched calls
NodesAfter(calls, node) ==
    IF calls = <<>> THEN nodes
    ELSE CASE calls[1] = "onNodeCompress" -> onNodeCompress(nodes, node)
           [] calls[1] = "onNodeExpand" ->
                (IF onNodeExpand(node).kind = "expandNode"
                    THEN expandNode(nodes, node.id) ELSE nodes)
           [] OTHER -> nodes

TasksAfter(calls, node) ==
    IF calls = <<>> THEN inflight
    ELSE CASE calls[1] = "onNodeExpand" ->
                (IF onNodeExpand(node).kind = "expandNode" /\ HasChildrenIds(node)
                    THEN inflight ELSE Start(onNodeExpand(node)))
           [] calls[1] = "onNodeOpen" -> Start(onNodeOpen(node))
           [] OTHER -> inflight

Step(ev, id, calls) ==
    [ev |-> ev, node |-> id, calls |-> calls,
     wasOpen |-> IF id \in DOMAIN nodes THEN nodes[id].isOpen
                 ELSE \E m \in DOMAIN nodes : nodes[m].isOpen,
     wasLoading |-> IF id \in DOMAIN nodes THEN nodes[id].isLoading
                    ELSE \E m \in DOMAIN nodes : nodes[m].isLoading,
     wasSelected |-> ev = "collapseAll" /\ selectedNode # Undefined]

ViewVars == <<viewNode, viewIds, rendered>>

\* ------------------------------------------------------------- user events
\* onClick of the container: selectNode (also reached by a click bubbling up)
Click(id) ==
    /\ \/ bubble = Undefined /\ Visible(id)
       \/ bubble = id
    /\ selectedNode' = setSelectedNode(id)
    /\ bubble' = Undefined
    /\ last' = Step("click", id, <<>>)
    /\ alerts' = 0
    /\ UNCHANGED <<nodes, inflight, ViewVars>>

\* onClick of the expand icon: toggleExpansion, then the click bubbles to the container
IndicatorClick(id) ==
    /\ bubble = Undefined
    /\ Visible(id)
    /\ LET calls == toggleExpansion(nodes[id])
       IN  /\ nodes' = NodesAfter(calls, nodes[id])
           /\ inflight' = TasksAfter(calls, nodes[id])
           /\ last' = Step("indicatorClick", id, calls)
    /\ bubble' = id
    /\ alerts' = 0
    /\ UNCHANGED <<selectedNode, ViewVars>>

DoubleClick(id) ==
    /\ bubble = Undefined
    /\ Visible(id)
    /\ LET calls == onDoubleClick(nodes[id])
       IN  /\ calls = <<"onNodeOpen">> => SumCount("openNode", Ids) < MaxOpenTasks
           /\ nodes' = NodesAfter(calls, nodes[id])
           /\ inflight' = TasksAfter(calls, nodes[id])
           /\ last' = Step("dblclick", id, calls)
    /\ alerts' = 0
    /\ UNCHANGED <<selectedNode, bubble, ViewVars>>

\* onClick of the tree's background: deselectTreeNode
BackgroundClick ==
    /\ bubble = Undefined
    /\ selectedNode' = setSelectedNode(Undefined)
    /\ last' = Step("backgroundClick", Undefined, <<>>)
    /\ alerts' = 0
    /\ UNCHANGED <<nodes, inflight, bubble, ViewVars>>

CollapseAll ==
    /\ bubble = Undefined
    /\ nodes' = collapseTree(nodes, selectedNode).nodes
    /\ selectedNode' = setSelectedNode(collapseTree(nodes, selectedNode).selectedNode)
    /\ last' = Step("collapseAll", Undefined, <<>>)
    /\ alerts' = 0
    /\ UNCHANGED <<inflight, bubble, ViewVars>>

RefreshClick ==
    /\ bubble = Undefined
    /\ TaskCount("refreshTreeData", Undefined) < MaxRefreshTasks
    /\ inflight' = Start(refreshTreeButton)
    /\ last' = Step("refreshClick", Undefined, <<>>)
    /\ alerts' = 0
    /\ UNCHANGED <<nodes, selectedNode, bubble, ViewVars>>

\* --------------------------------------------------------- flows settling
ExpandSucceeds(task) ==
    /\ bubble = Undefined
    /\ task.kind = "expandNode"
    /\ nodes' = expandNodeSucceeded(nodes, task.node, ServerChildren(task.node))
    /\ inflight' = Settle(task)
    /\ last' = Step("expandSucceeded", task.node, <<>>)
    /\ alerts' = 0
    /\ UNCHANGED <<selectedNode, bubble, ViewVars>>

ExpandFails(task) ==
    /\ bubble = Undefined
    /\ task.kind = "expandNode"
    /\ nodes' = expandNodeFailed(nodes, task.node)
    /\ inflight' = Settle(task)
    /\ alerts' = Rejected(task, 0)
    /\ last' = Step("expandFailed", task.node, <<>>)
    /\ UNCHANGED <<selectedNode, bubble, ViewVars>>

OpenSucceeds(task) ==
    /\ bubble = Undefined
    /\ task.kind = "openNode"
    /\ inflight' = Settle(task)
    /\ last' = Step("openSucceeded", task.node, <<>>)
    /\ alerts' = 0
    /\ UNCHANGED <<nodes, selectedNode, bubble, ViewVars>>

OpenFails(task) ==
    /\ bubble = Undefined
    /\ task.kind = "openNode"
    /\ inflight' = Settle(task)
    /\ alerts' = Rejected(task, 0)
    /\ last' = Step("openFailed", task.node, <<>>)
    /\ UNCHANGED <<nodes, selectedNode, bubble, ViewVars>>

RefreshSucceeds(task) ==
    /\ bubble = Undefined
    /\ task.kind = "refreshTreeData"
    /\ inflight' = Settle(task)
    /\ last' = Step("refreshSucceeded", Undefined, <<>>)
    /\ alerts' = 0
    /\ UNCHANGED <<nodes, selectedNode, bubble, ViewVars>>

RefreshFails(task) ==
    /\ bubble = Undefined
    /\ task.kind = "refreshTreeData"
    /\ inflight' = Settle(task)
    /\ alerts' = Rejected(task, 0)
    /\ last' = Step("refreshFailed", Undefined, <<>>)
    /\ UNCHANGED <<nodes, selectedNode, bubble, ViewVars>>

\* --------------------------------------------------------- specification
MainInit ==
    /\ nodes = [id \in RootIds |-> NewNode(id)]
    /\ selectedNode = Undefined
    /\ inflight = EmptyBag
    /\ alerts = 0
    /\ bubble = Undefined
    /\ last = [ev |-> "init", node |-> Undefined, calls |-> <<>>,
               wasOpen |-> FALSE, wasLoading |-> FALSE, wasSelected |-> FALSE]

Init ==
    /\ MainInit
    /\ viewNode = NewNode("root")
    /\ viewIds = {}
    /\ rendered = [kind |-> "none", value |-> <<>>]

Next ==
    \/ \E id \in Ids : Click(id)
    \/ \E id \in Ids : IndicatorClick(id)
    \/ \E id \in Ids : DoubleClick(id)
    \/ BackgroundClick
    \/ CollapseAll
    \/ RefreshClick
    \/ \E task \in BagToSet(inflight) : ExpandSucceeds(task)
    \/ \E task \in BagToSet(inflight) : ExpandFails(task)
    \/ \E task \in BagToSet(inflight) : OpenSucceeds(task)
    \/ \E task \in BagToSet(inflight) : OpenFails(task)
    \/ \E task \in BagToSet(inflight) : RefreshSucceeds(task)
    \/ \E task \in BagToSet(inflight) : RefreshFails(task)

Spec == Init /\ [][Next]_vars

\* the flows settle: the event loop runs a continuation once the handler before it
\* has returned, and a click that is propagating reaches the container
FairSpec ==
    /\ Spec
    /\ WF_vars(\E id \in Ids : bubble = id /\ Click(id))
    /\ \A id \in Ids :
          SF_vars(\E task \in BagToSet(inflight) :
                     task.node = id /\ (ExpandSucceeds(task) \/ ExpandFails(task)))

\* ------------------------------------------ rendering one node on its own
ViewChildIds == {"a", "b", "c"}

SeqsUpTo(S, n) == UNION {[1..k -> S] : k \in 0..n}

\* treeData.nodes of the rendering: the ids that resolve, each to its node
ViewNodes == [id \in viewIds |-> NewNode(id)]

ViewInit ==
    /\ MainInit
    /\ viewIds \in SUBSET ViewChildIds
    /\ \E t \in ConceptTypes, o \in BOOLEAN, l \in BOOLEAN :
          \/ viewNode = [id |-> "n", pureType |-> t, isOpen |-> o, isLoading |-> l]
          \/ \E ids \in SeqsUpTo(ViewChildIds, MaxChildren) :
                viewNode = [id |-> "n", pureType |-> t, isOpen |-> o, isLoading |-> l,
                            childrenIds |-> ids]
    /\ rendered = [kind |-> "none", value |-> <<>>]

MainVars == <<nodes, selectedNode, inflight, alerts, bubble, last>>

RenderChildren ==
    /\ rendered' = [kind |-> "children", value |-> getChildNodes(viewNode, ViewNodes)]
    /\ UNCHANGED <<MainVars, viewNode, viewIds>>

OpenContextMenu ==
    /\ rendered' = [kind |-> "menu",
                    value |-> ConceptExplorerContextMenu(viewNode.pureType)]
    /\ UNCHANGED <<MainVars, viewNode, viewIds>>

ViewNext == RenderChildren \/ OpenContextMenu

SpecView == ViewInit /\ [][ViewNext]_vars

\* ------------------------------------------------------------------ claims
UserToggle == {"indicatorClick", "dblclick"}

\* C1: while a node is loading, a click on its expand icon or a double click on it
\* dispatches no callback and leaves the node collection and the flows unchanged.
C1_LoadingNodeIgnoresToggle ==
    [][(/\ last'.ev \in UserToggle
        /\ last'.node \in DOMAIN nodes
        /\ nodes[last'.node].isLoading)
       => (/\ last'.calls = <<>>
           /\ nodes' = nodes
           /\ inflight' = inflight)]_vars

C1_Witness ==
    /\ last.ev = "dblclick"
    /\ last.wasLoading
    /\ last.calls = <<>>
    /\ nodes[last.node].isLoading
    /\ TaskCount("expandNode", last.node) = 1

C3_ExpandLoadsThenOpens ==
    /\ [][/\ (last'.calls = <<"onNodeExpand">> /\ ~HasChildrenIds(nodes[last'.node]))
             => (/\ nodes'[last'.node].isLoading
                 /\ ~HasChildrenIds(nodes'[last'.node])
                 /\ CopiesIn([kind |-> "expandNode", node |-> last'.node,
                              catch |-> TRUE], inflight') >= 1)
          /\ last'.ev = "expandSucceeded"
             => (/\ ~nodes'[last'.node].isLoading
                 /\ nodes'[last'.node].isOpen
                 /\ HasChildrenIds(nodes'[last'.node])
                 /\ nodes'[last'.node].childrenIds = ServerChildren(last'.node)
                 /\ Range(ServerChildren(last'.node)) \subseteq DOMAIN nodes')]_vars
    /\ \A id \in Ids :
          (TaskCount("expandNode", id) > 0)
             ~> (last.ev \in {"expandSucceeded", "expandFailed"} /\ last.node = id)

C3_Witness ==
    /\ last.ev = "expandSucceeded"
    /\ nodes[last.node].isOpen
    /\ Len(nodes[last.node].childrenIds) > 0
    /\ Range(nodes[last.node].childrenIds) \subseteq DOMAIN nodes

\* C4: a failed expand or open is reported by one call of the error alert and is
\* not started again; after a failed expand the node is unloaded, closed and not
\* loading.  No other user event or success raises the alert.
C4_FailureReportedOnce ==
    [][/\ last'.ev = "expandFailed"
          => (/\ alerts' = 1
              /\ ~nodes'[last'.node].isLoading
              /\ ~nodes'[last'.node].isOpen
              /\ ~HasChildrenIds(nodes'[last'.node])
              /\ BagCardinality(inflight') = BagCardinality(inflight) - 1
              /\ CopiesIn([kind |-> "expandNode", node |-> last'.node, catch |-> TRUE],
                          inflight') = 0)
       /\ last'.ev = "openFailed"
          => (/\ alerts' = 1
              /\ nodes' = nodes
              /\ BagCardinality(inflight') = BagCardinality(inflight) - 1)
       /\ last'.ev \notin {"expandFailed", "openFailed", "refreshFailed"}
          => alerts' = 0]_vars

C4_Witness ==
    /\ last.ev = "expandFailed"
    /\ alerts = 1
    /\ ~nodes[last.node].isLoading
    /\ TaskCount("expandNode", last.node) = 0

\* C5: right after collapse-all every node of the collection is closed and no node
\* is selected.
C5_CollapseAllClosesEverything ==
    last.ev = "collapseAll"
       => (/\ \A id \in DOMAIN nodes : ~nodes[id].isOpen
           /\ selectedNode = Undefined)

C5_Witness ==
    /\ last.ev = "collapseAll"
    /\ last.wasOpen
    /\ last.wasLoading
    /\ last.wasSelected
    /\ \E id \in DOMAIN nodes : nodes[id].isLoading

\* C6: compress changes the node's isOpen to false and nothing else: not its
\* childrenIds or isLoading, not another node, not the selection, and it starts or
\* settles no flow.
C6_CompressOnlyCloses ==
    [][last'.calls = <<"onNodeCompress">>
       => (/\ nodes[last'.node].isOpen
           /\ HasChildrenIds(nodes[last'.node])
           /\ nodes' = [nodes EXCEPT ![last'.node].isOpen = FALSE]
           /\ selectedNode' = selectedNode
           /\ inflight' = inflight)]_vars

C6_Witness ==
    /\ last.calls = <<"onNodeCompress">>
    /\ ~nodes[last.node].isOpen
    /\ Len(nodes[last.node].childrenIds) > 0
    /\ selectedNode \notin {Undefined, last.node}

\* the positions of childrenIds whose id resolves in the collection
Resolvable(node) == {i \in DOMAIN node.childrenIds : node.childrenIds[i] \in viewIds}

\* C7: getChildNodes is empty for a loading node and for one without childrenIds;
\* otherwise it is the nodes of the ids that resolve, in the order of childrenIds.
C7_ChildNodesAreResolvableIds ==
    rendered.kind = "children"
       => IF viewNode.isLoading \/ ~HasChildrenIds(viewNode)
             THEN rendered.value = <<>>
             ELSE /\ Len(rendered.value) = Cardinality(Resolvable(viewNode))
                  /\ \A k \in 1..Len(rendered.value) :
                        \E i \in Resolvable(viewNode) :
                           /\ Cardinality({j \in Resolvable(viewNode) : j <= i}) = k
                           /\ rendered.value[k] = ViewNodes[viewNode.childrenIds[i]]

C7_Witness ==
    /\ rendered.kind = "children"
    /\ ~viewNode.isLoading
    /\ HasChildrenIds(viewNode)
    /\ Len(viewNode.childrenIds) = 2
    /\ viewNode.childrenIds[1] \notin viewIds
    /\ Len(rendered.value) = 1
    /\ rendered.value[1].id = viewNode.childrenIds[2]

MenuActions == {rendered.value[i].action : i \in DOMAIN rendered.value}

\* C8: the menu of a Package offers rename package and run tests; of a Property,
\* rename property and view source; of a Function, rename, move, service (JSON) and
\* view source; of any other type, rename, move and view source; each once.
C8_MenuActionsByType ==
    rendered.kind = "menu"
       => /\ Len(rendered.value) = Cardinality(MenuActions)
          /\ MenuActions =
                CASE viewNode.pureType = PACKAGE -> {"renamePackage", "runTests"}
                  [] viewNode.pureType = PROPERTY -> {"renameProperty", "viewSource"}
                  [] viewNode.pureType = FUNCTION ->
                        {"rename", "move", "serviceJSON", "viewSource"}
                  [] OTHER -> {"rename", "move", "viewSource"}

C8_Witness ==
    /\ rendered.kind = "menu"
    /\ viewNode.pureType = PACKAGE
    /\ Len(rendered.value) = 2

\* C9: a double click on a node that is not loading dispatches one callback:
\* for a Package, Class or Association compress if it was open and expand if it was
\* closed, for any other type open.
C9_DoubleClickDispatch ==
    (last.ev = "dblclick" /\ ~last.wasLoading)
       => last.calls =
             IF nodes[last.node].pureType \in {PACKAGE, CLASS, ASSOCIATION}
                THEN IF last.wasOpen THEN <<"onNodeCompress">> ELSE <<"onNodeExpand">>
                ELSE <<"onNodeOpen">>

C9_Witness ==
    /\ last.ev = "dblclick"
    /\ ~last.wasLoading
    /\ nodes[last.node].pureType = ASSOCIATION
    /\ last.wasOpen
    /\ last.calls = <<"onNodeCompress">>

\* C10: expand and compress are dispatched only for a Package, Class or
\* Association; a node of another type is never fetched for, loading or open.
C10_OnlyExpandableTypesExpand ==
    \A id \in DOMAIN nodes :
       nodes[id].pureType \notin {PACKAGE, CLASS, ASSOCIATION}
          => /\ ~nodes[id].isLoading
             /\ ~nodes[id].isOpen
             /\ TaskCount("expandNode", id) = 0
             /\ ~(last.node = id
                  /\ last.calls \in {<<"onNodeExpand">>, <<"onNodeCompress">>})

====
